---- MODULE Spec2Model ----
(***************************************************************************)
(* Content Idea Generator (src/main.py): the response parser               *)
(* extract_json_array, the generator generate_ideas with its one           *)
(* reinforced retry and padding, the credential selection, and the         *)
(* session state driven by the Generate / Generate More / Clear buttons.   *)
(*                                                                         *)
(* A Python str is a sequence of one-character strings.                    *)
(***************************************************************************)
EXTENDS Integers, Sequences, FiniteSets, TLC

VARIABLES
    text,        \* ParserSpec: the raw text handed to extract_json_array
    src,         \* ParserSpec: how text was put together (raw / json / lines)
    out,         \* ParserSpec: extract_json_array(text)
    out2,        \* ParserSpec: extract_json_array of out, one idea per line
    ppc,         \* ParserSpec: "in" -> "parsed" -> "reparsed"
    ss_ideas,    \* st.session_state.ideas
    ss_topic,    \* st.session_state.topic
    api_key,     \* openai.api_key (module attribute, outlives a script run)
    env_key,     \* os.getenv("OPENAI_API_KEY")
    run,         \* what the last script run of main() did
    parsed,      \* extract_json_array of each text the service may reply
    g_in,        \* GenSpec: arguments and service replies of one generate_ideas call
    g_out,       \* GenSpec: what that call did
    gpc          \* GenSpec: "call" -> "done"

vars == <<text, src, out, out2, ppc, ss_ideas, ss_topic, api_key, env_key,
          run, parsed, g_in, g_out, gpc>>

parserVars == <<text, src, out, out2, ppc>>
uiVars == <<ss_ideas, ss_topic, api_key, env_key, run, parsed>>
genVars == <<g_in, g_out, gpc>>

-----------------------------------------------------------------------------
(* Characters *)

QUOTE == "\""
BACKSLASH == "\\"
NL == "\n"
BULLET == "*"     \* stands for U+2022, the bullet of lstrip("-• ")

Digits == {"0", "1", "2", "3", "4", "5", "6", "7", "8", "9"}

\* str.isdigit() of one character
IsDigit(c) == c \in Digits

\* the characters str.strip() removes
IsSpace(c) == c \in {" ", "\n", "\t", "\r"}

\* the characters str.splitlines() breaks at
IsLineBreak(c) == c \in {"\n", "\r"}

-----------------------------------------------------------------------------
(* Python str methods *)

\* number of leading characters of s that satisfy being in set cs
RECURSIVE LeadIn(_, _)
LeadIn(s, cs) ==
    IF s # <<>> /\ Head(s) \in cs THEN 1 + LeadIn(Tail(s), cs) ELSE 0

RECURSIVE TrailSpace(_)
TrailSpace(s) ==
    IF s # <<>> /\ IsSpace(s[Len(s)])
    THEN 1 + TrailSpace(SubSeq(s, 1, Len(s) - 1)) ELSE 0

\* s.lstrip(chars)
LStripSet(s, cs) == SubSeq(s, LeadIn(s, cs) + 1, Len(s))

\* s.strip()
Strip(s) ==
    LET l == LStripSet(s, {" ", "\n", "\t", "\r"})
    IN  SubSeq(l, 1, Len(l) - TrailSpace(l))

\* s.index(c): the first position of c, 0 for ValueError
Index(s, c) ==
    IF \E i \in 1..Len(s) : s[i] = c
    THEN CHOOSE i \in 1..Len(s) : s[i] = c /\ \A j \in 1..(i - 1) : s[j] # c
    ELSE 0

\* s.rindex(c): the last position of c, 0 for ValueError
RIndex(s, c) ==
    IF \E i \in 1..Len(s) : s[i] = c
    THEN CHOOSE i \in 1..Len(s) : s[i] = c /\ \A j \in (i + 1)..Len(s) : s[j] # c
    ELSE 0

\* s.splitlines()
RECURSIVE SplitLines(_)
SplitLines(s) ==
    IF s = <<>> THEN <<>>
    ELSE LET brk == {i \in 1..Len(s) : IsLineBreak(s[i])}
         IN  IF brk = {} THEN <<s>>
             ELSE LET i == CHOOSE k \in brk : \A j \in brk : k <= j
                      \* "\r\n" is one line break
                      w == IF s[i] = "\r" /\ i < Len(s) /\ s[i + 1] = "\n"
                           THEN 2 ELSE 1
                  IN  <<SubSeq(s, 1, i - 1)>>
                        \o SplitLines(SubSeq(s, i + w, Len(s)))

\* [f(x) for x in xs if x]
RECURSIVE DropEmpty(_)
DropEmpty(xs) ==
    IF xs = <<>> THEN <<>>
    ELSE (IF Head(xs) # <<>> THEN <<Head(xs)>> ELSE <<>>) \o DropEmpty(Tail(xs))

StripEach(xs) == [i \in 1..Len(xs) |-> Strip(xs[i])]

-----------------------------------------------------------------------------
(* json.loads, as far as line 63 uses it: the candidate is decoded as one  *)
(* JSON value (strings, numbers, literals and arrays; an object or a       *)
(* \u escape is reported as not decodable, which line 64 treats the same   *)
(* way as a decoded value that is no list of strings).                     *)

\* the character at position i, "" past the end
At(s, i) == IF i \in 1..Len(s) THEN s[i] ELSE ""

Fail == [ok |-> FALSE, pos |-> 0, t |-> "none", v |-> <<>>, elems |-> <<>>]

\* JSON whitespace is skipped between tokens
RECURSIVE SkipWs(_, _)
SkipWs(s, i) == IF At(s, i) \in {" ", "\t", "\n", "\r"} THEN SkipWs(s, i + 1) ELSE i

\* number of consecutive digits of s from position i
RECURSIVE DigitsFrom(_, _)
DigitsFrom(s, i) == IF IsDigit(At(s, i)) THEN 1 + DigitsFrom(s, i + 1) ELSE 0

\* s holds the word w at position i
StartsWith(s, i, w) ==
    /\ i + Len(w) - 1 <= Len(s)
    /\ \A k \in 1..Len(w) : s[i + k - 1] = w[k]

Unescape(c) ==
    CASE c = "n" -> "\n"
      [] c = "t" -> "\t"
      [] c = "r" -> "\r"
      [] OTHER -> c

\* the body of a JSON string from position j (after the opening quote); a raw
\* control character inside a string is an error (strict decoding)
RECURSIVE ScanString(_, _, _)
ScanString(s, j, acc) ==
    LET c == At(s, j) IN
    CASE c = "" -> Fail
      [] c = QUOTE ->
           [ok |-> TRUE, pos |-> j + 1, t |-> "str", v |-> acc, elems |-> <<>>]
      [] c = BACKSLASH ->
           IF At(s, j + 1) \in {QUOTE, BACKSLASH, "/", "n", "t", "r"}
           THEN ScanString(s, j + 2, Append(acc, Unescape(At(s, j + 1))))
           ELSE Fail
      [] c \in {"\n", "\t", "\r"} -> Fail
      [] OTHER -> ScanString(s, j + 1, Append(acc, c))

\* -?(0|[1-9][0-9]*)(\.[0-9]+)?([eE][-+]?[0-9]+)?
ScanNumber(s, i) ==
    LET j == IF At(s, i) = "-" THEN i + 1 ELSE i
        intEnd == IF At(s, j) = "0" THEN j + 1 ELSE j + DigitsFrom(s, j)
        fracEnd == IF At(s, intEnd) = "." /\ IsDigit(At(s, intEnd + 1))
                   THEN intEnd + 1 + DigitsFrom(s, intEnd + 1) ELSE intEnd
        k == IF At(s, fracEnd + 1) \in {"-", "+"} THEN fracEnd + 2 ELSE fracEnd + 1
        expEnd == IF At(s, fracEnd) \in {"e", "E"} /\ IsDigit(At(s, k))
                  THEN k + DigitsFrom(s, k) ELSE fracEnd
    IN  IF IsDigit(At(s, j))
        THEN [ok |-> TRUE, pos |-> expEnd, t |-> "num", v |-> <<>>, elems |-> <<>>]
        ELSE Fail

Literals ==
    { <<"n", "u", "l", "l">>, <<"t", "r", "u", "e">>, <<"f", "a", "l", "s", "e">>,
      <<"N", "a", "N">>, <<"I", "n", "f", "i", "n", "i", "t", "y">>,
      <<"-", "I", "n", "f", "i", "n", "i", "t", "y">> }

RECURSIVE ScanValue(_, _)
RECURSIVE ScanElems(_, _, _)

\* the elements of an array from position j, acc being those decoded so far
ScanElems(s, j, acc) ==
    LET e == ScanValue(s, j)
        k == SkipWs(s, e.pos)
        acc2 == Append(acc, [t |-> e.t, v |-> e.v])
    IN  IF ~e.ok THEN Fail
        ELSE CASE At(s, k) = "," -> ScanElems(s, SkipWs(s, k + 1), acc2)
               [] At(s, k) = "]" ->
                    [ok |-> TRUE, pos |-> k + 1, t |-> "list", v |-> <<>>, elems |-> acc2]
               [] OTHER -> Fail

ScanValue(s, i) ==
    LET c == At(s, i) IN
    CASE c = QUOTE -> ScanString(s, i + 1, <<>>)
      [] c = "[" ->
           LET j == SkipWs(s, i + 1)
           IN  IF At(s, j) = "]"
               THEN [ok |-> TRUE, pos |-> j + 1, t |-> "list", v |-> <<>>, elems |-> <<>>]
               ELSE ScanElems(s, j, <<>>)
      [] \E w \in Literals : StartsWith(s, i, w) ->
           LET w == CHOOSE x \in Literals : StartsWith(s, i, x)
           IN  [ok |-> TRUE, pos |-> i + Len(w), t |-> "lit", v |-> <<>>, elems |-> <<>>]
      [] OTHER -> ScanNumber(s, i)

\* json.loads(s): one value, whitespace around it, nothing else ("Extra data")
JsonLoads(s) ==
    LET r == ScanValue(s, SkipWs(s, 1))
    IN  IF r.ok /\ SkipWs(s, r.pos) = Len(s) + 1 THEN r ELSE Fail

-----------------------------------------------------------------------------
(* extract_json_array *)

\* lines 60-62: text[text.index("["):text.rindex("]")+1]; a missing bracket
\* raises ValueError, reported here as no candidate
HasCandidate(t) == Index(t, "[") > 0 /\ RIndex(t, "]") > 0

\* mutant: the array is taken to end at the first "]"
Candidate_firstClose(t) == SubSeq(t, Index(t, "["), Index(t, "]"))

Candidate(t) == SubSeq(t, Index(t, "["), RIndex(t, "]"))

\* line 64: isinstance(arr, list) and all(isinstance(i, str) for i in arr)
IsStringList(r) ==
    r.ok /\ r.t = "list" /\ \A i \in 1..Len(r.elems) : r.elems[i].t = "str"

\* lines 58-67 reach the return of line 65
JsonPathTaken(t) == HasCandidate(t) /\ IsStringList(JsonLoads(Candidate(t)))

\* line 65: [i.strip() for i in arr if i and i.strip()]
TrimDrop(strs) == DropEmpty(StripEach(strs))

JsonIdeas(t) ==
    LET r == JsonLoads(Candidate(t))
    IN  TrimDrop([i \in 1..Len(r.elems) |-> r.elems[i].v])

\* lines 78-81: drop the leading run of digits and ".) ", then strip
NumberingChars == Digits \cup {".", ")", " "}

\* lines 74-81 for one line
CleanLine(ln) ==
    LET l1 == LStripSet(ln, {"-", BULLET, " "})
    IN  IF l1 # <<>> /\ IsDigit(Head(l1))
        THEN Strip(LStripSet(l1, NumberingChars))
        ELSE l1

\* mutant: the loop of line 72 starts at the second line
FallbackIdeas_skipFirst(t) ==
    LET lines == DropEmpty(StripEach(SplitLines(t)))
    IN  DropEmpty([i \in 1..(Len(lines) - 1) |-> CleanLine(lines[i + 1])])

\* lines 70-84
FallbackIdeas(t) ==
    LET lines == DropEmpty(StripEach(SplitLines(t)))
    IN  DropEmpty([i \in 1..Len(lines) |-> CleanLine(lines[i])])

extract_json_array(txt) ==
    LET t == Strip(txt)
    IN  IF JsonPathTaken(t) THEN JsonIdeas(t) ELSE FallbackIdeas(t)

-----------------------------------------------------------------------------
(* Texts handed to the parser *)

MaxLen == 4       \* longest raw text
MaxElems == 2     \* most elements of an encoded array
MaxLines == 2     \* most lines of a numbered / bulleted text

Alphabet == {"a", "1", " ", "-", ".", "[", "]", QUOTE, ",", NL}

SeqsUpTo(S, n) == UNION {[1..k -> S] : k \in 0..n}

\* sep.join(xs)
RECURSIVE Join(_, _)
Join(xs, sep) ==
    IF xs = <<>> THEN <<>>
    ELSE IF Len(xs) = 1 THEN xs[1]
    ELSE xs[1] \o sep \o Join(Tail(xs), sep)

\* a string as a JSON string literal: quote, backslash and line break escaped
RECURSIVE EscapeChars(_)
EscapeChars(s) ==
    IF s = <<>> THEN <<>>
    ELSE (CASE Head(s) = QUOTE -> <<BACKSLASH, QUOTE>>
            [] Head(s) = BACKSLASH -> <<BACKSLASH, BACKSLASH>>
            [] Head(s) = NL -> <<BACKSLASH, "n">>
            [] OTHER -> <<Head(s)>>) \o EscapeChars(Tail(s))

EncodeString(s) == <<QUOTE>> \o EscapeChars(s) \o <<QUOTE>>

\* a well-formed JSON array of strings
EncodeArray(elems, sep) ==
    <<"[">> \o Join([i \in 1..Len(elems) |-> EncodeString(elems[i])], sep) \o <<"]">>

ElemPool ==
    { <<>>, <<"a">>, <<" ">>, <<" ", "a">>, <<"a", " ", "b">>, <<"b", "]">>,
      <<"[">>, <<QUOTE, "a">>, <<"1", ".", " ", "a">>, <<"a", NL>> }

Separators == { <<",">>, <<",", " ">> }

PrePool == { <<>>, <<"a", ":", " ">>, <<"[", "1", "]", " ">>, <<NL, " ">> }

SufPool == { <<>>, <<" ", "a">>, <<" ", "]">>, <<NL>> }

BulletPool == { <<>>, <<"-", " ">>, <<BULLET, " ">> }

NumPool == { <<>>, <<"1", ".", " ">>, <<"2", ")">>, <<"1", "0", " ">> }

BodyPool == { <<"a">>, <<"a", " ", "b">>, <<"5", " ", "a">>, <<"a", "1">> }

\* a body that begins with a digit is generated behind a numbering prefix only:
\* on its own it would read as numbering
LineItems ==
    { it \in [bullet : BulletPool, num : NumPool, body : BodyPool] :
        IsDigit(Head(it.body)) => it.num # <<>> }

LineOf(it) == it.bullet \o it.num \o it.body

Bodies(items) == [i \in 1..Len(items) |-> items[i].body]

noRun == [kind |-> "none"]

\* generate_ideas not called
noRes == [raised |-> "none", sent |-> <<>>, replies |-> <<>>, ret |-> <<>>]

\* before the first script run
idleRun ==
    [kind |-> "none", input_key |-> "", shown |-> "none", called |-> FALSE,
     req |-> noRun, res |-> noRes]

ParserIdle ==
    text = <<>> /\ src = [kind |-> "raw"] /\ out = <<>> /\ out2 = <<>> /\ ppc = "off"

UiIdle ==
    /\ ss_ideas = <<>> /\ ss_topic = <<>> /\ api_key = "" /\ env_key = ""
    /\ run = idleRun /\ parsed = <<>>

ParserInit ==
    /\ ppc = "in"
    /\ out = <<>>
    /\ out2 = <<>>
    /\ \/ /\ text \in SeqsUpTo(Alphabet, MaxLen)
          /\ src = [kind |-> "raw"]
       \/ \E pre \in PrePool, suf \in SufPool, sep \in Separators,
             elems \in SeqsUpTo(ElemPool, MaxElems) :
             /\ text = pre \o EncodeArray(elems, sep) \o suf
             /\ src = [kind |-> "json", pre |-> pre, elems |-> elems, suf |-> suf]
       \/ \E items \in SeqsUpTo(LineItems, MaxLines) :
             /\ text = Join([i \in 1..Len(items) |-> LineOf(items[i])], <<NL>>)
             /\ src = [kind |-> "lines", items |-> items]
    /\ UiIdle
    /\ g_in = noRun /\ g_out = noRun /\ gpc = "off"

\* ideas = extract_json_array(raw)
Extract ==
    /\ ppc = "in"
    /\ out' = extract_json_array(text)
    /\ ppc' = "parsed"
    /\ UNCHANGED <<text, src, out2, uiVars, genVars>>

\* extract_json_array applied to its own output, one idea per line
ReExtract ==
    /\ ppc = "parsed"
    /\ out2' = extract_json_array(Join(out, <<NL>>))
    /\ ppc' = "reparsed"
    /\ UNCHANGED <<text, src, out, uiVars, genVars>>

ParserNext == Extract \/ ReExtract

ParserSpec == ParserInit /\ [][ParserNext]_vars

-----------------------------------------------------------------------------
(* call_openai_chat and generate_ideas *)

DEFAULT_MODEL == "gpt-3.5-turbo"
MAX_TOKENS == 600

\* a reply of the remote service: a text, or the call failing
TextReply(t) == [ok |-> TRUE, text |-> t]
FailReply == [ok |-> FALSE, text |-> <<>>]

\* lines 112-119 and 130-133: what the two prompts are built from
Prompt(kind, topic, n, style, tone) ==
    [kind |-> kind, topic |-> topic, n |-> n, style |-> style, tone |-> tone]

\* lines 87-107: RuntimeError without a key and nothing sent; otherwise one
\* request, answered by reply
call_openai_chat(prompt, temperature, key, reply) ==
    IF key = ""
    THEN [raised |-> "RuntimeError", sent |-> <<>>, replies |-> <<>>, text |-> <<>>]
    ELSE LET req == [prompt |-> prompt, temperature |-> temperature, key |-> key,
                     model |-> DEFAULT_MODEL, max_tokens |-> MAX_TOKENS]
         IN  [raised |-> IF reply.ok THEN "none" ELSE "APIError",
              sent |-> <<req>>, replies |-> <<reply>>, text |-> reply.text]

\* str(k) of an integer k >= 0
RECURSIVE IntToStr(_)
IntToStr(k) ==
    LET d == <<"0", "1", "2", "3", "4", "5", "6", "7", "8", "9">>
    IN  IF k < 10 THEN <<d[k + 1]>> ELSE IntToStr(k \div 10) \o <<d[(k % 10) + 1]>>

\* f"{topic} - idea {k}"
Placeholder(topic, k) ==
    topic \o <<" ", "-", " ", "i", "d", "e", "a", " ">> \o IntToStr(k)

\* mutant: every missing slot gets a numbered placeholder
RECURSIVE Pad_placeholders(_, _, _)
Pad_placeholders(result, n, topic) ==
    IF Len(result) >= n THEN result
    ELSE Pad_placeholders(Append(result, Placeholder(topic, Len(result) + 1)), n, topic)

\* lines 140-143: repeat the last idea, or number placeholders from an empty list
RECURSIVE Pad(_, _, _)
Pad(result, n, topic) ==
    IF Len(result) >= n THEN result
    ELSE IF result # <<>>
         THEN Pad(Append(result, result[Len(result)]), n, topic)
         ELSE Pad(Append(result, Placeholder(topic, Len(result) + 1)), n, topic)

\* mutant: len(ideas) > n
Suffices_strict(ideas, n) == Len(ideas) > n

\* lines 125 and 136: len(ideas) >= n
Suffices(ideas, n) == Len(ideas) >= n

\* mutant: the list is returned untruncated
Truncate_keepAll(ideas, n) == ideas

\* lines 126 and 137: ideas[:n], n >= 1
Truncate(ideas, n) == SubSeq(ideas, 1, n)

\* lines 110-143, given ideas = extract_json_array(raw) of line 122 and
\* ideas2 = extract_json_array(raw2) of line 135; reply1 and reply2 are what the
\* service answers to the first and to the second request, should they be made
GenerateFrom(topic, n, style, tone, temperature, key, reply1, reply2, ideas, ideas2) ==
    LET c1 == call_openai_chat(Prompt("primary", topic, n, style, tone),
                               temperature, key, reply1)
        c2 == call_openai_chat(Prompt("reinforced", topic, n, style, tone),
                               temperature, key, reply2)
        sent2 == c1.sent \o c2.sent
        replies2 == c1.replies \o c2.replies
    IN  IF c1.raised # "none"
        THEN [raised |-> c1.raised, sent |-> c1.sent, replies |-> c1.replies,
              ret |-> <<>>]
        ELSE IF Suffices(ideas, n)
        THEN [raised |-> "none", sent |-> c1.sent, replies |-> c1.replies,
              ret |-> Truncate(ideas, n)]
        ELSE IF c2.raised # "none"
        THEN [raised |-> c2.raised, sent |-> sent2, replies |-> replies2,
              ret |-> <<>>]
        ELSE IF Suffices(ideas2, n)
        THEN [raised |-> "none", sent |-> sent2, replies |-> replies2,
              ret |-> Truncate(ideas2, n)]
        ELSE [raised |-> "none", sent |-> sent2, replies |-> replies2,
              ret |-> Pad(ideas, n, topic)]

generate_ideas(topic, n, style, tone, temperature, key, reply1, reply2) ==
    GenerateFrom(topic, n, style, tone, temperature, key, reply1, reply2,
                 extract_json_array(reply1.text), extract_json_array(reply2.text))

-----------------------------------------------------------------------------
(* One call of generate_ideas on its own *)

MaxCount == 2        \* largest n (the slider of line 159 allows 1..20)
MaxReplyLen == 2     \* longest free-form reply text

Topics == { <<"t">>, <<"u", "v">> }

\* (style, tone, temperature in tenths) as set in the sidebar, lines 160-162
Controls ==
    { [style |-> "General", tone |-> "Practical", temperature |-> 7],
      [style |-> "Listicle", tone |-> "Funny", temperature |-> 10] }

ReplyAlphabet == {"a", NL, "[", "]"}

\* free-form texts (empty, lines, unbalanced brackets), arrays of strings of up
\* to MaxCount + 1 elements, an array of numbers, a numbered list
ReplyTexts ==
    SeqsUpTo(ReplyAlphabet, MaxReplyLen)
      \cup {EncodeArray(e, <<",", " ">>) : e \in SeqsUpTo({<<"a">>, <<"b">>}, MaxCount + 1)}
      \cup { <<"[", "1", ",", "2", "]">>,
             <<"1", ".", " ", "a", NL, "2", ".", " ", "b", NL, "3", ".", " ", "c">> }

Replies == {TextReply(t) : t \in ReplyTexts} \cup {FailReply}

GenInit ==
    /\ gpc = "call"
    /\ g_out = noRun
    /\ \E topic \in Topics, n \in 1..MaxCount, c \in Controls, key \in {"", "sk-env"},
          r1 \in Replies :
          \* the second reply matters only when a second request is made
          \E r2 \in IF key # "" /\ r1.ok /\ ~Suffices(extract_json_array(r1.text), n)
                    THEN Replies ELSE {FailReply} :
             g_in = [topic |-> topic, n |-> n, style |-> c.style, tone |-> c.tone,
                     temperature |-> c.temperature, key |-> key,
                     reply1 |-> r1, reply2 |-> r2]
    /\ ParserIdle
    /\ UiIdle

GenerateIdeas ==
    /\ gpc = "call"
    /\ g_out' = generate_ideas(g_in.topic, g_in.n, g_in.style, g_in.tone,
                               g_in.temperature, g_in.key, g_in.reply1, g_in.reply2)
    /\ gpc' = "done"
    /\ UNCHANGED <<g_in, parserVars, uiVars>>

GenNext == GenerateIdeas

GenSpec == GenInit /\ [][GenNext]_vars

-----------------------------------------------------------------------------
(* main(): one action per script run, which a widget change or a button     *)
(* press starts.  Each run first reads the credential (line 156), then      *)
(* handles the one button that was pressed, if any.                         *)

MaxSession == 3      \* cap on the accumulated list (the code has none)

SidebarKeys == {"", "sk-sidebar"}
EnvKeys == {"", "sk-env"}

\* the topic field of line 169: empty, or a topic
UiTopics == { <<"t">> }

TopicInputs == {<<>>} \cup UiTopics

UiReplies ==
    { FailReply, TextReply(<<>>), TextReply(<<"a">>),
      TextReply(EncodeArray(<< <<"a">>, <<"b">>, <<"c">> >>, <<",", " ">>)) }

\* lines 38-49: the sidebar key, else the environment's, else openai.api_key
\* is left as it is
set_api_key_from_env_or_input(input_key, env, current) ==
    IF input_key # "" THEN input_key
    ELSE IF env # "" THEN env
    ELSE current

\* the keyword arguments of a generate_ideas call
Args(topic, n, c) == [topic |-> topic, n |-> n, c |-> c]

\* line 187: Generate passes the widgets' values
GenerateArgs(topic, n, c) == Args(topic, n, c)

\* line 201: Generate More passes the stored topic and the widgets' other values
MoreArgs(stored_topic, n, c) == Args(stored_topic, n, c)

\* lines 122 and 135 for every text the service may reply
ParseTable == [r \in UiReplies |-> extract_json_array(r.text)] @@ <<>>

\* generate_ideas(**a) with openai.api_key = key, the service answering r1, r2
Call(a, key, r1, r2) ==
    GenerateFrom(a.topic, a.n, a.c.style, a.c.tone, a.c.temperature, key,
                 r1, r2, parsed[r1], parsed[r2])

\* the second reply matters only when a second request is made
SecondReplies(n, key, r1) ==
    IF key # "" /\ r1.ok /\ ~Suffices(parsed[r1], n) THEN UiReplies ELSE {FailReply}

\* mutant: the topic is stored before generate_ideas is called
AfterGenerate_topicFirst(res, topic, ideas0, topic0) ==
    IF res.raised = "none"
    THEN [ideas |-> res.ret, topic |-> topic]
    ELSE [ideas |-> ideas0, topic |-> topic]

\* lines 185-193: the session after the Generate handler
AfterGenerate(res, topic, ideas0, topic0) ==
    IF res.raised = "none"
    THEN [ideas |-> res.ret, topic |-> topic]
    ELSE [ideas |-> ideas0, topic |-> topic0]

\* lines 200-205: the session after the Generate More handler
AfterMore(res, ideas0, topic0) ==
    IF res.raised = "none"
    THEN [ideas |-> ideas0 \o res.ret, topic |-> topic0]
    ELSE [ideas |-> ideas0, topic |-> topic0]

\* mutant: Clear forgets to reset the topic
AfterClear_keepTopic == [ideas |-> <<>>, topic |-> ss_topic]

\* lines 234-235
AfterClear == [ideas |-> <<>>, topic |-> <<>>]

Shown(res) == IF res.raised = "none" THEN "success" ELSE "exception"

\* lines 176-178, and openai.api_key before any run
Init ==
    /\ ss_ideas = <<>>
    /\ ss_topic = <<>>
    /\ api_key = ""
    /\ env_key \in EnvKeys
    /\ run = idleRun
    /\ parsed = ParseTable
    /\ ParserIdle
    /\ g_in = noRun /\ g_out = noRun /\ gpc = "off"

\* a run no button started (a sidebar or topic widget changed)
Rerun ==
    \E input_key \in SidebarKeys :
       /\ api_key' = set_api_key_from_env_or_input(input_key, env_key, api_key)
       /\ run' = [kind |-> "rerun", input_key |-> input_key, shown |-> "none",
                  called |-> FALSE, req |-> noRun, res |-> noRes]
       /\ UNCHANGED <<ss_ideas, ss_topic, env_key, parsed, parserVars, genVars>>

\* lines 180-193: "Generate Ideas" pressed
Generate ==
    \E input_key \in SidebarKeys, topic \in TopicInputs, num_ideas \in 1..MaxCount,
       c \in Controls :
       LET key == set_api_key_from_env_or_input(input_key, env_key, api_key)
           a == GenerateArgs(topic, num_ideas, c)
       IN  /\ api_key' = key
           /\ IF topic = <<>>
              THEN /\ run' = [kind |-> "generate", input_key |-> input_key,
                              shown |-> "error", called |-> FALSE, req |-> noRun,
                              res |-> noRes]
                   /\ UNCHANGED <<ss_ideas, ss_topic>>
              ELSE \E r1 \in UiReplies : \E r2 \in SecondReplies(num_ideas, key, r1) :
                      LET res == Call(a, key, r1, r2)
                          after == AfterGenerate(res, topic, ss_ideas, ss_topic)
                      IN  /\ ss_ideas' = after.ideas
                          /\ ss_topic' = after.topic
                          /\ run' = [kind |-> "generate", input_key |-> input_key,
                                     shown |-> Shown(res), called |-> TRUE,
                                     req |-> a, res |-> res]
           /\ UNCHANGED <<env_key, parsed, parserVars, genVars>>

\* lines 195-205: "Generate More (append)" pressed
GenerateMore ==
    \E input_key \in SidebarKeys, num_ideas \in 1..MaxCount, c \in Controls :
       LET key == set_api_key_from_env_or_input(input_key, env_key, api_key)
           a == MoreArgs(ss_topic, num_ideas, c)
       IN  /\ Len(ss_ideas) + num_ideas <= MaxSession
           /\ api_key' = key
           /\ IF ss_topic = <<>>
              THEN /\ run' = [kind |-> "more", input_key |-> input_key,
                              shown |-> "error", called |-> FALSE, req |-> noRun,
                              res |-> noRes]
                   /\ UNCHANGED <<ss_ideas, ss_topic>>
              ELSE \E r1 \in UiReplies : \E r2 \in SecondReplies(num_ideas, key, r1) :
                      LET res == Call(a, key, r1, r2)
                          after == AfterMore(res, ss_ideas, ss_topic)
                      IN  /\ ss_ideas' = after.ideas
                          /\ ss_topic' = after.topic
                          /\ run' = [kind |-> "more", input_key |-> input_key,
                                     shown |-> Shown(res), called |-> TRUE,
                                     req |-> a, res |-> res]
           /\ UNCHANGED <<env_key, parsed, parserVars, genVars>>

\* lines 208 and 233-236: "Clear ideas", which is drawn only beside a non-empty list
Clear ==
    \E input_key \in SidebarKeys :
       /\ ss_ideas # <<>>
       /\ api_key' = set_api_key_from_env_or_input(input_key, env_key, api_key)
       /\ ss_ideas' = AfterClear.ideas
       /\ ss_topic' = AfterClear.topic
       /\ run' = [kind |-> "clear", input_key |-> input_key, shown |-> "none",
                  called |-> FALSE, req |-> noRun, res |-> noRes]
       /\ UNCHANGED <<env_key, parsed, parserVars, genVars>>

Next == Rerun \/ Generate \/ GenerateMore \/ Clear

Spec == Init /\ [][Next]_vars

-----------------------------------------------------------------------------
(* Properties of generate_ideas (GenSpec) *)

Ideas1 == extract_json_array(g_in.reply1.text)
Ideas2 == extract_json_array(g_in.reply2.text)

GenDone == gpc = "done"

\* every request that was made was answered with a text
AllAnswered ==
    /\ g_in.key # ""
    /\ \A i \in 1..Len(g_out.replies) : g_out.replies[i].ok

\* both requests were made and answered, and both fell short of n
BothShort ==
    /\ GenDone /\ g_in.key # "" /\ g_in.reply1.ok /\ g_in.reply2.ok
    /\ Len(Ideas1) < g_in.n /\ Len(Ideas2) < g_in.n

\* C1: whatever texts the service returns to the first and the second request,
\* generate_ideas raises nothing when no request fails and returns exactly n ideas.
C1_ReturnsExactlyN ==
    (GenDone /\ AllAnswered) => (g_out.raised = "none" /\ Len(g_out.ret) = g_in.n)

C1_Witness ==
    /\ GenDone /\ AllAnswered
    /\ g_in.n = 2
    /\ g_in.reply1.text = <<"]", "[">>
    /\ g_in.reply2.text = <<>>
    /\ Len(g_out.replies) = 2
    /\ Len(g_out.ret) = 2

\* C2 as claimed: when both replies fall short, the result has length n, starts
\* with the k real ideas collected and ends with n-k placeholders
\* "{topic} - idea {position}".
C2_PlaceholdersAfterRealIdeas ==
    BothShort =>
        /\ Len(g_out.ret) = g_in.n
        /\ \E k \in {Len(Ideas1), Len(Ideas1 \o Ideas2)} :
              /\ k <= g_in.n
              /\ \A i \in 1..k : g_out.ret[i] = (Ideas1 \o Ideas2)[i]
              /\ \A i \in (k + 1)..g_in.n :
                    g_out.ret[i] = Placeholder(g_in.topic, i)

\* C2 as amended: when both replies fall short, the result has length n and starts
\* with the k ideas of the first reply (those of the second are dropped); the other
\* n-k elements all repeat the k-th idea when k >= 1, and are all the one
\* placeholder "{topic} - idea 1" when k = 0.
C2_PadsWithLastIdea ==
    BothShort =>
        LET k == Len(Ideas1) IN
        /\ Len(g_out.ret) = g_in.n
        /\ \A i \in 1..k : g_out.ret[i] = Ideas1[i]
        /\ \A i \in (k + 1)..g_in.n :
              g_out.ret[i] = IF k > 0 THEN Ideas1[k] ELSE Placeholder(g_in.topic, 1)

C2_Witness ==
    /\ BothShort
    /\ g_in.n = 2
    /\ Ideas1 = << <<"a">> >>
    /\ Ideas2 = << <<"b">> >>
    /\ g_out.ret = << <<"a">>, <<"a">> >>

\* C3: a call of generate_ideas sends at most 2 requests: one when the first reply
\* parses to at least n ideas, and one more, reinforced, when it parses to fewer.
C3_AtMostTwoCalls ==
    GenDone =>
        /\ Len(g_out.sent) <= 2
        /\ (g_in.key # "" /\ g_in.reply1.ok /\ Len(Ideas1) >= g_in.n)
              => Len(g_out.sent) = 1
        /\ (g_in.key # "" /\ g_in.reply1.ok /\ Len(Ideas1) < g_in.n)
              => /\ Len(g_out.sent) = 2
                 /\ g_out.sent[2].prompt.kind = "reinforced"
        /\ (g_out.sent # <<>>) => g_out.sent[1].prompt.kind = "primary"

C3_Witness ==
    /\ GenDone
    /\ Len(g_out.sent) = 2
    /\ g_out.raised = "none"
    /\ Len(Ideas1) = 1 /\ g_in.n = 2
    /\ Len(Ideas2) = 3

-----------------------------------------------------------------------------
(* Properties of the session (Spec) *)

\* C4: a request that fails, first or second, reaches the handler as an exception;
\* it is the last request of the run, no ideas come back, and the session's list
\* and topic stay what they were, for Generate and for Generate More.
C4_Step ==
    (run'.called /\ run'.res.raised = "APIError") =>
        LET rs == run'.res.replies IN
        /\ run'.shown = "exception"
        /\ run'.res.ret = <<>>
        /\ Len(run'.res.sent) = Len(rs)
        /\ ~rs[Len(rs)].ok
        /\ \A i \in 1..(Len(rs) - 1) : rs[i].ok
        /\ ss_ideas' = ss_ideas
        /\ ss_topic' = ss_topic

C4_FailureLeavesSession == [][C4_Step]_vars

C4_Witness ==
    /\ run.kind = "more"
    /\ run.called
    /\ run.res.raised = "APIError"
    /\ Len(run.res.sent) = 2
    /\ Len(ss_ideas) = 2

\* C5 as claimed: a generation call made in a run where neither the sidebar key
\* nor the environment key is present fails with the configuration error and sends
\* nothing; when both are present the sidebar key is the one used.
C5_NoKeyNoCall ==
    run.called =>
        /\ (run.input_key = "" /\ env_key = "")
              => (run.res.raised = "RuntimeError" /\ run.res.sent = <<>>)
        /\ (run.input_key # "" /\ env_key # "")
              => \A i \in 1..Len(run.res.sent) : run.res.sent[i].key = run.input_key

\* C9 as claimed: Generate More right after a generation calls generate_ideas with
\* that generation's topic, style, tone and temperature, and on success the list
\* becomes the previous list followed by the returned ideas.
C9_Step ==
    (/\ run.kind \in {"generate", "more"} /\ run.shown = "success"
     /\ run'.kind = "more" /\ run'.shown = "success")
        => /\ run'.req.topic = run.req.topic
           /\ run'.req.c = run.req.c
           /\ ss_ideas' = ss_ideas \o run'.res.ret

C9_MoreRepeatsRequest == [][C9_Step]_vars

\* C10: the stored topic is empty exactly when the session's list is empty.
C10_TopicIffIdeas == (ss_topic = <<>>) <=> (ss_ideas = <<>>)

C10_Witness ==
    /\ run.kind = "clear"
    /\ ss_ideas = <<>>
    /\ ss_topic = <<>>

-----------------------------------------------------------------------------
(* Properties of extract_json_array (ParserSpec) *)

Parsed == ppc \in {"parsed", "reparsed"}

Has(s, c) == \E i \in 1..Len(s) : s[i] = c

\* the strings of an array, each trimmed, the empty ones left out
TrimmedNonEmpty(strs) ==
    SelectSeq([i \in 1..Len(strs) |-> Strip(strs[i])], LAMBDA e : e # <<>>)

\* C6 as claimed: a text that holds a well-formed array of strings, whatever text
\* surrounds it, yields exactly those strings, trimmed, the empty ones removed.
C6_ArrayAnywhere ==
    (Parsed /\ src.kind = "json") => out = TrimmedNonEmpty(src.elems)

\* C6 as amended: a text whose well-formed array of strings starts at the text's
\* first "[" and ends at its last "]" (the text before it holds no "[", the text
\* after it no "]") yields exactly those strings, trimmed, the empty ones removed,
\* in order.
C6_ArrayBetweenOuterBrackets ==
    (Parsed /\ src.kind = "json" /\ ~Has(src.pre, "[") /\ ~Has(src.suf, "]"))
        => out = TrimmedNonEmpty(src.elems)

C6_Witness ==
    /\ Parsed /\ src.kind = "json"
    /\ src.pre = <<"a", ":", " ">>
    /\ src.suf = <<" ", "a">>
    /\ src.elems = << <<" ", "a">>, <<" ">> >>
    /\ out = << <<"a">> >>

\* C7 as claimed: a text with no decodable array, whose lines are each a bullet
\* prefix, a numbering prefix and a body, yields exactly the bodies, unchanged.
C7_BodiesUnchanged ==
    (Parsed /\ src.kind = "lines" /\ ~JsonPathTaken(Strip(text)))
        => out = Bodies(src.items)

\* an idea that the fallback would return as it is: trimmed, on one line, not
\* starting with a bullet character or a digit
CleanIdea(s) ==
    /\ s # <<>>
    /\ Strip(s) = s
    /\ \A i \in 1..Len(s) : ~IsLineBreak(s[i])
    /\ Head(s) \notin {"-", BULLET} \cup Digits

\* C8 as claimed: extract_json_array applied to its own output, one idea per line,
\* returns that output again.
C8_Idempotent == (ppc = "reparsed") => out2 = out

\* C8 as amended: when the returned ideas are already clean (each trimmed, on one
\* line, not starting with "-", the bullet or a digit) and, put one per line, hold
\* no decodable array of strings, extract_json_array returns them unchanged.
C8_IdempotentOnClean ==
    (/\ ppc = "reparsed"
     /\ \A i \in 1..Len(out) : CleanIdea(out[i])
     /\ ~JsonPathTaken(Strip(Join(out, <<NL>>))))
        => out2 = out

C8_Witness ==
    /\ ppc = "reparsed"
    /\ src.kind = "lines"
    /\ Len(out) = 2
    /\ \A i \in 1..Len(out) : CleanIdea(out[i])
    /\ text # Join(out, <<NL>>)
    /\ out2 = out

====
